---------------------------- MODULE Spec2Model ----------------------------
(***************************************************************************)
(* Model of src/shell.ts: the platform shim of the Kubernetes extension.   *)
(*                                                                         *)
(* Strings are sequences of one-character strings, so that the regular     *)
(* expression, the line split, the quote stripping and the PATH            *)
(* concatenation are computed character by character as the code does.     *)
(* An environment (process.env, or the plain object shellEnvironment       *)
(* builds) is a function from variable names to values; a variable that    *)
(* is not set is not in its DOMAIN.                                        *)
(***************************************************************************)
EXTENDS Naturals, Sequences, FiniteSets, TLC

VARIABLES
    platform,   \* process.platform
    config,     \* the 'vs-kubernetes' configuration section
    minikube,   \* what shelljs.which/exec find for `minikube`
    minishift,  \* what shelljs.which/exec find for `minishift`
    penv,       \* process.env
    last,       \* the last completed call: its inputs and what it did
    execs       \* the promises returned by exec, oldest first

vars == <<platform, config, minikube, minishift, penv, last, execs>>

-----------------------------------------------------------------------------
(* Characters and string literals                                          *)

LOWER == <<"a","b","c","d","e","f","g","h","i","j","k","l","m",
          "n","o","p","q","r","s","t","u","v","w","x","y","z">>
UPPER == <<"A","B","C","D","E","F","G","H","I","J","K","L","M",
          "N","O","P","Q","R","S","T","U","V","W","X","Y","Z">>
LowerCase == {LOWER[i] : i \in DOMAIN LOWER}
UpperCase == {UPPER[i] : i \in DOMAIN UPPER}
Digits == {"0","1","2","3","4","5","6","7","8","9"}

\* [a-zA-Z0-9_]
NameChars == LowerCase \cup UpperCase \cup Digits \cup {"_"}
IsNameChar(c) == c \in NameChars

\* \s, on the characters a line can hold after the split on [\r\n]+
IsSpace(c) == c \in {" ", "\t"}

\* [\r\n]
IsLineBreak(c) == c \in {"\r", "\n"}

\* v.toLowerCase(), on ASCII
toLowerCase(v) ==
    [i \in DOMAIN v |->
        IF v[i] \in UpperCase
        THEN LOWER[CHOOSE j \in DOMAIN UPPER : UPPER[j] = v[i]]
        ELSE v[i]]

WINDOWS == <<"w","i","n","3","2">>
LINUX == <<"l","i","n","u","x">>

EXPORT == <<"e","x","p","o","r","t">>
PATH == <<"P","A","T","H">>
HOME == <<"H","O","M","E">>
USERPROFILE == <<"U","S","E","R","P","R","O","F","I","L","E">>
KUBECONFIG == <<"K","U","B","E","C","O","N","F","I","G">>
DOCKER_HOST == <<"D","O","C","K","E","R","_","H","O","S","T">>
DOCKER_CERT_PATH == <<"D","O","C","K","E","R","_","C","E","R","T","_","P","A","T","H">>

-----------------------------------------------------------------------------
(* Environments                                                            *)

\* env[name] as a condition: set and not the empty string
Truthy(env, name) == name \in DOMAIN env /\ env[name] # <<>>

\* env[name] = value
SetVar(env, name, value) ==
    [n \in DOMAIN env \cup {name} |-> IF n = name THEN value ELSE env[n]]

\* env[name] = undefined: a key whose value is undefined is one a child
\* process does not receive, and reads as unset
UnsetVar(env, name) == [n \in DOMAIN env \ {name} |-> env[n]]

\* {}
EmptyEnv == [n \in {} |-> <<>>]

-----------------------------------------------------------------------------
(* Platform detection                                                      *)

isWindows == platform = WINDOWS

isUnix == ~isWindows

\* home(): process.env[homeVar], which may be undefined
home(pe) ==
    LET homeVar == IF isWindows THEN USERPROFILE ELSE HOME
    IN  [defined |-> homeVar \in DOMAIN pe,
         value |-> IF homeVar \in DOMAIN pe THEN pe[homeVar] ELSE <<>>]

pathEntrySeparator == IF isWindows THEN <<";">> ELSE <<":">>

-----------------------------------------------------------------------------
(* Parsing of `docker-env` output (autoDockerEnvConfig, lines 173-188)     *)

\* stdout.split(/[\r\n]+/): the pieces between maximal runs of line breaks,
\* an empty piece before a leading run and after a trailing one included
RECURSIVE SplitFrom(_, _, _, _, _)
SplitFrom(s, i, cur, inBreak, acc) ==
    IF i > Len(s) THEN Append(acc, cur)
    ELSE IF IsLineBreak(s[i])
         THEN IF inBreak THEN SplitFrom(s, i + 1, cur, TRUE, acc)
              ELSE SplitFrom(s, i + 1, <<>>, TRUE, Append(acc, cur))
         ELSE SplitFrom(s, i + 1, Append(cur, s[i]), FALSE, acc)

splitLines(stdout) == SplitFrom(stdout, 1, <<>>, FALSE, <<>>)

\* lines.filter((l) => l.length > 0)
NonEmptyLine(l) == Len(l) > 0

filterLines(lines) == SelectSeq(lines, NonEmptyLine)

\* the first index >= i of line whose character is not a space (\s*)
RECURSIVE SkipSpaces(_, _)
SkipSpaces(line, i) ==
    IF i <= Len(line) /\ IsSpace(line[i]) THEN SkipSpaces(line, i + 1) ELSE i

\* the first index >= i of line whose character is not a name character
\* ([a-zA-Z0-9_]*)
RECURSIVE SkipName(_, _)
SkipName(line, i) ==
    IF i <= Len(line) /\ IsNameChar(line[i]) THEN SkipName(line, i + 1) ELSE i

\* /^export\s*([a-zA-Z0-9_]*)=(.*)$/.exec(line). Neither a space nor '='
\* is a name character and '=' is no space, so the greedy match is the only
\* one; a line holds no line break, so (.*)$ takes the rest of it.
regexpExec(line) ==
    LET n == Len(line)
        nameStart == SkipSpaces(line, 7)
        nameEnd == SkipName(line, nameStart)
        ok == /\ n >= 6
              /\ SubSeq(line, 1, 6) = EXPORT
              /\ nameEnd <= n
              /\ line[nameEnd] = "="
    IN  IF ok
        THEN [match |-> TRUE,
              name |-> SubSeq(line, nameStart, nameEnd - 1),
              value |-> SubSeq(line, nameEnd + 1, n)]
        ELSE [match |-> FALSE, name |-> <<>>, value |-> <<>>]

\* match[2].replace(/"/gi, '')
NotQuote(c) == c # "\""

stripQuotes(value) == SelectSeq(value, NotQuote)

\* lines.map(...): every matching line is written to process.env and logged,
\* every other line is logged only
RECURSIVE applyLines(_, _, _, _)
applyLines(lines, i, pe, log) ==
    IF i > Len(lines) THEN [penv |-> pe, log |-> log]
    ELSE LET m == regexpExec(lines[i])
         IN  IF m.match
             THEN applyLines(lines, i + 1,
                             SetVar(pe, m.name, stripQuotes(m.value)),
                             Append(log, [kind |-> "set", name |-> m.name,
                                          text |-> stripQuotes(m.value)]))
             ELSE applyLines(lines, i + 1, pe,
                             Append(log, [kind |-> "nomatch", name |-> <<>>,
                                          text |-> lines[i]]))

-----------------------------------------------------------------------------
(* Container-engine auto-detection                                         *)

\* What shelljs finds for a helper: which(helper) is `present`, and
\* exec(helper + " docker-env", {silent: true}) gives code, stdout, stderr.
Helper(present, code, stdout, stderr) ==
    [present |-> present, code |-> code, stdout |-> stdout, stderr |-> stderr]

\* which(helper) returns null
Absent == Helper(FALSE, 0, <<>>, <<>>)

WHICH_MINIKUBE == "which minikube"
EXEC_MINIKUBE == "exec minikube docker-env"
WHICH_MINISHIFT == "which minishift"
EXEC_MINISHIFT == "exec minishift docker-env"

\* explicitDocker, looking at DOCKER_HOST alone
explicitDocker_hostOnly(pe) == Truthy(pe, DOCKER_HOST)

\* line 148, negated: DOCKER_HOST or DOCKER_CERT_PATH is defined
explicitDocker(pe) == Truthy(pe, DOCKER_HOST) \/ Truthy(pe, DOCKER_CERT_PATH)

\* line 155: shellResult.code !== 0 || shellResult.stderr
helperFailed(r) == r.code # 0 \/ r.stderr # <<>>

\* helperSucceeded, looking at the exit code alone
helperSucceeded_codeOnly(r) == r.code = 0

\* line 172: shellResult.code === 0 && !shellResult.stderr
helperSucceeded(r) == r.code = 0 /\ r.stderr = <<>>

\* tryMinishift, trying minishift whatever minikube did
tryMinishift_always(mk) == TRUE

\* lines 153-160: whether minishift is tried after the minikube step
tryMinishift(mk) == IF mk.present THEN helperFailed(mk) ELSE TRUE

\* lines 153-154: the shelljs calls of the minikube step
minikubeStep(mk) ==
    IF mk.present THEN <<WHICH_MINIKUBE, EXEC_MINIKUBE>> ELSE <<WHICH_MINIKUBE>>

\* lines 165-166: the shelljs calls of the minishift step
minishiftStep(ms) ==
    IF ms.present THEN <<WHICH_MINISHIFT, EXEC_MINISHIFT>> ELSE <<WHICH_MINISHIFT>>

\* What one call did: process.env after it, whether it threw, the value it
\* returned (when it did not throw), its shelljs calls and its console.log
\* lines, both in order.
Outcome(pe, threw, ret, events, log) ==
    [penv |-> pe, threw |-> threw, ret |-> ret, events |-> events, log |-> log]

\* lines 172-193: the evaluation of shellResult, here a helper's result
evaluateResult(pe, r, events) ==
    IF helperSucceeded(r)
    THEN LET applied == applyLines(filterLines(splitLines(r.stdout)), 1, pe, <<>>)
         IN  Outcome(applied.penv, FALSE, FALSE, events, applied.log)
    ELSE Outcome(pe, FALSE, FALSE, events,
                 <<[kind |-> "error", name |-> <<>>, text |-> r.stderr]>>)

\* lines 162-172 when tryMinishift is false: shellResult was reset to null
\* on line 162 and line 172 reads shellResult.code, a TypeError
nullResult(pe, events) == Outcome(pe, TRUE, FALSE, events, <<>>)

\* autoDockerEnvConfig without the early return of line 168: a missing
\* minishift falls through to the evaluation of the unset result
autoDockerEnvConfig_fallThrough(pe, mk, ms) ==
    IF explicitDocker(pe)
    THEN Outcome(pe, FALSE, FALSE, <<>>, <<>>)
    ELSE IF tryMinishift(mk)
         THEN IF ms.present
              THEN evaluateResult(pe, ms, minikubeStep(mk) \o minishiftStep(ms))
              ELSE nullResult(pe, minikubeStep(mk) \o minishiftStep(ms))
         ELSE nullResult(pe, minikubeStep(mk))

\* autoDockerEnvConfig(env); the argument is never read
autoDockerEnvConfig(pe, mk, ms) ==
    IF explicitDocker(pe)
    THEN Outcome(pe, FALSE, FALSE, <<>>, <<>>)
    ELSE IF tryMinishift(mk)
         THEN IF ms.present
              THEN evaluateResult(pe, ms, minikubeStep(mk) \o minishiftStep(ms))
              ELSE Outcome(pe, FALSE, FALSE,
                           minikubeStep(mk) \o minishiftStep(ms), <<>>)
         ELSE nullResult(pe, minikubeStep(mk))

-----------------------------------------------------------------------------
(* Execution options                                                       *)

\* the tools of the loop on line 123, in its order
TOOLS == <<"kubectl", "helm", "draft">>

\* lines 198-207. Object.keys lists the keys in insertion order and the
\* first match is returned; the environments modelled hold at most one key
\* spelling "path", so the order does not matter.
pathVariableName(env) ==
    IF isWindows /\ \E v \in DOMAIN env : toLowerCase(v) = toLowerCase(PATH)
    THEN CHOOSE v \in DOMAIN env : toLowerCase(v) = toLowerCase(PATH)
    ELSE PATH

\* a separator of path.dirname: '/' (posix), '/' or '\' (win32)
IsPathSep(c) == c = "/" \/ (isWindows /\ c = "\\")

\* the index of the last separator of p before index i, 0 when there is none
RECURSIVE LastSep(_, _)
LastSep(p, i) ==
    IF i = 0 THEN 0 ELSE IF IsPathSep(p[i]) THEN i ELSE LastSep(p, i - 1)

\* path.dirname(toolPath), for a path with single separators that does not
\* end in one and, on win32, is not directly under a drive root
dirname(p) ==
    LET k == LastSep(p, Len(p))
    IN  IF k = 0 THEN <<".">> ELSE IF k = 1 THEN <<p[1]>> ELSE SubSeq(p, 1, k - 1)

\* extendPath, putting the tool directory in front
extendPath_prepend(env, pathVariable, toolDirectory) ==
    IF Truthy(env, pathVariable)
    THEN toolDirectory \o pathEntrySeparator \o env[pathVariable]
    ELSE toolDirectory

\* line 133: (currentPath ? `${currentPath}${pathEntrySeparator()}` : '')
\*           + toolDirectory
extendPath(env, pathVariable, toolDirectory) ==
    IF Truthy(env, pathVariable)
    THEN env[pathVariable] \o pathEntrySeparator \o toolDirectory
    ELSE toolDirectory

\* What one autoDockerEnvConfig call did, with the process.env it started
\* from.
CallRecord(pe, o) ==
    [pre |-> pe, post |-> o.penv, threw |-> o.threw, ret |-> o.ret,
     events |-> o.events, log |-> o.log]

\* toolLoop, running the auto-detection for the first configured tool only
RECURSIVE toolLoop_firstOnly(_, _, _, _, _, _, _, _)
toolLoop_firstOnly(i, env, pathVariable, pe, calls, cfg, mk, ms) ==
    IF i > Len(TOOLS)
    THEN [env |-> env, penv |-> pe, threw |-> FALSE, calls |-> calls]
    ELSE IF cfg[TOOLS[i]] = <<>>
         THEN toolLoop_firstOnly(i + 1, env, pathVariable, pe, calls, cfg, mk, ms)
         ELSE LET toolDirectory == dirname(cfg[TOOLS[i]])
                  first == calls = <<>>
                  auto == IF first THEN autoDockerEnvConfig(pe, mk, ms)
                          ELSE Outcome(pe, FALSE, FALSE, <<>>, <<>>)
                  made == IF first THEN Append(calls, CallRecord(pe, auto))
                          ELSE calls
              IN  IF auto.threw
                  THEN [env |-> env, penv |-> auto.penv, threw |-> TRUE,
                        calls |-> made]
                  ELSE toolLoop_firstOnly(i + 1,
                                SetVar(env, pathVariable,
                                       extendPath(env, pathVariable, toolDirectory)),
                                pathVariable, auto.penv, made, cfg, mk, ms)

\* lines 123-135: the loop over the tools from index i on. env is the copy
\* being built, pe is process.env, calls the autoDockerEnvConfig calls made
\* so far. An exception in autoDockerEnvConfig ends shellEnvironment.
RECURSIVE toolLoop(_, _, _, _, _, _, _, _)
toolLoop(i, env, pathVariable, pe, calls, cfg, mk, ms) ==
    IF i > Len(TOOLS)
    THEN [env |-> env, penv |-> pe, threw |-> FALSE, calls |-> calls]
    ELSE IF cfg[TOOLS[i]] = <<>>
         THEN toolLoop(i + 1, env, pathVariable, pe, calls, cfg, mk, ms)
         ELSE LET toolDirectory == dirname(cfg[TOOLS[i]])
                  auto == autoDockerEnvConfig(pe, mk, ms)
                  made == Append(calls, CallRecord(pe, auto))
              IN  IF auto.threw
                  THEN [env |-> env, penv |-> auto.penv, threw |-> TRUE,
                        calls |-> made]
                  ELSE toolLoop(i + 1,
                                SetVar(env, pathVariable,
                                       extendPath(env, pathVariable, toolDirectory)),
                                pathVariable, auto.penv, made, cfg, mk, ms)

\* lines 137-140
setKubeconfig(env, cfg) ==
    IF cfg.kubeconfig # <<>> THEN SetVar(env, KUBECONFIG, cfg.kubeconfig) ELSE env

\* shellEnvironment working on process.env itself instead of a copy: what
\* it writes and what the auto-detection writes land in the same object
shellEnvironment_noCopy(base, pe, cfg, mk, ms) ==
    LET looped == toolLoop(1, base, pathVariableName(base), pe, <<>>, cfg, mk, ms)
        shared == setKubeconfig(looped.env, cfg) @@ looped.penv
    IN  IF looped.threw THEN looped
        ELSE [looped EXCEPT !.env = shared, !.penv = shared]

\* shellEnvironment(baseEnvironment): env is Object.assign({}, baseEnvironment)
shellEnvironment(base, pe, cfg, mk, ms) ==
    LET looped == toolLoop(1, base, pathVariableName(base), pe, <<>>, cfg, mk, ms)
    IN  IF looped.threw THEN looped
        ELSE [looped EXCEPT !.env = setKubeconfig(looped.env, cfg)]

\* lines 90-93: the environment execOpts hands to shellEnvironment
execOptsBase(pe) ==
    IF isWindows
    THEN IF home(pe).defined
         THEN SetVar(pe, HOME, home(pe).value)
         ELSE UnsetVar(pe, HOME)
    ELSE pe

\* execOpts(); cwd and async are added by the caller of this operator
execOpts(pe, cfg, mk, ms) == shellEnvironment(execOptsBase(pe), pe, cfg, mk, ms)

-----------------------------------------------------------------------------
(* Inputs                                                                  *)

Platforms == {WINDOWS, LINUX}

\* values of environment variables and settings
BIN == <<"/","b","i","n">>
WINDIR == <<"C",":","\\","w">>
USERDIR == <<"/","u">>
TCP_EXPLICIT == <<"t","c","p",":","/","/","h",":","1">>
CERTS == <<"/","c">>
KUBECONFIG_PATH == <<"/","k","c">>
ROOT_PATH == <<"/","w","s">>

\* process.env when the extension starts: the search path and the home
\* directory under their platform's names, and an explicit Docker
\* configuration or none (DOCKER_HOST may be set to the empty string)
StartEnv(plat) ==
    IF plat = WINDOWS
    THEN (<<"P","a","t","h">> :> WINDIR) @@ (USERPROFILE :> USERDIR)
    ELSE (PATH :> BIN) @@ (HOME :> USERDIR)

DockerEnvs ==
    {EmptyEnv, DOCKER_HOST :> TCP_EXPLICIT, DOCKER_CERT_PATH :> CERTS,
     DOCKER_HOST :> <<>>}

\* the configured path of a tool: an executable x in a directory of its own
ToolDir(tool) ==
    CASE tool = "kubectl" -> "k" [] tool = "helm" -> "h" [] tool = "draft" -> "d"

ToolPath(plat, tool) ==
    IF plat = WINDOWS
    THEN <<"C",":","\\">> \o <<ToolDir(tool)>> \o <<"\\","x">>
    ELSE <<"/">> \o <<ToolDir(tool)>> \o <<"/","x">>

\* the 'vs-kubernetes' settings and the workspace root: each tool path and
\* the kubeconfig are configured or not (an unset setting reads as empty)
Configs(plat) ==
    {[kubectl |-> IF "kubectl" \in on THEN ToolPath(plat, "kubectl") ELSE <<>>,
      helm |-> IF "helm" \in on THEN ToolPath(plat, "helm") ELSE <<>>,
      draft |-> IF "draft" \in on THEN ToolPath(plat, "draft") ELSE <<>>,
      kubeconfig |-> IF kc THEN KUBECONFIG_PATH ELSE <<>>,
      rootPath |-> ROOT_PATH] :
        on \in SUBSET {"kubectl", "helm", "draft"}, kc \in BOOLEAN}

\* `docker-env` outputs
LINE_HOST ==
    EXPORT \o <<" ">> \o DOCKER_HOST \o
    <<"=","\"","t","c","p",":","/","/","1",".","2",".","3",".","4",":",
      "2","3","7","6","\"">>
LINE_TLS ==
    EXPORT \o <<" ">> \o <<"D","O","C","K","E","R","_","T","L","S">> \o
    <<"=","\"","1","\"">>
LINE_NOSPACE ==
    EXPORT \o <<"D","O","C","K","E","R","_","T","L","S">> \o <<"=","2">>
LINE_COMMENT == <<"#"," ","e","v","a","l">>

STDOUT_HOST == LINE_HOST \o <<"\n">>
STDOUT_MIXED ==
    LINE_COMMENT \o <<"\r","\n","\n">> \o LINE_TLS \o <<"\n">> \o LINE_NOSPACE
STDERR_TEXT == <<"E">>

\* what a helper can be: not installed, or installed with one of these
\* results of `docker-env`
HelperValues ==
    {Absent,
     Helper(TRUE, 0, STDOUT_HOST, <<>>),
     Helper(TRUE, 0, STDOUT_MIXED, <<>>),
     Helper(TRUE, 0, <<>>, <<>>),
     Helper(TRUE, 1, STDOUT_HOST, <<>>),
     Helper(TRUE, 0, STDOUT_HOST, STDERR_TEXT)}

\* environments handed to shellEnvironment by a caller other than execOpts
BaseEnvs == {PATH :> <<>>, (PATH :> BIN) @@ (KUBECONFIG :> CERTS)}

\* what a child process ends with
ChildResults ==
    {[code |-> 0, stdout |-> <<"o","k">>, stderr |-> <<>>],
     [code |-> 1, stdout |-> <<>>, stderr |-> STDERR_TEXT]}

\* how many times exec is called
MaxExecs == 1

-----------------------------------------------------------------------------
(* State machine                                                           *)

\* the record of a call: the operation, process.env at its start, the
\* environment it was given and the one it returned (when it returns one),
\* whether it threw, and its autoDockerEnvConfig calls in order
Call(op, pre, base, env, threw, calls) ==
    [op |-> op, pre |-> pre, base |-> base, env |-> env, threw |-> threw,
     calls |-> calls]

NoCall == Call("none", EmptyEnv, EmptyEnv, EmptyEnv, FALSE, <<>>)

Init ==
    /\ platform \in Platforms
    /\ config \in Configs(platform)
    /\ minikube \in HelperValues
    /\ minishift \in HelperValues
    /\ \E d \in DockerEnvs : penv = StartEnv(platform) @@ d
    /\ last = NoCall
    /\ execs = <<>>

\* a caller runs autoDockerEnvConfig (it is exported)
CallAutoDockerEnvConfig ==
    LET o == autoDockerEnvConfig(penv, minikube, minishift)
    IN  /\ penv' = o.penv
        /\ last' = Call("autoDockerEnvConfig", penv, EmptyEnv, EmptyEnv, o.threw,
                        <<CallRecord(penv, o)>>)
        /\ UNCHANGED <<platform, config, minikube, minishift, execs>>

\* a caller runs shellEnvironment(base)
CallShellEnvironment ==
    \E base \in BaseEnvs :
        LET r == shellEnvironment(base, penv, config, minikube, minishift)
        IN  /\ penv' = r.penv
            /\ last' = Call("shellEnvironment", penv, base, r.env, r.threw, r.calls)
            /\ UNCHANGED <<platform, config, minikube, minishift, execs>>

\* a caller runs execOpts()
CallExecOpts ==
    LET r == execOpts(penv, config, minikube, minishift)
    IN  /\ penv' = r.penv
        /\ last' = Call("execOpts", penv, execOptsBase(penv), r.env, r.threw, r.calls)
        /\ UNCHANGED <<platform, config, minikube, minishift, execs>>

\* the promise exec returns: its state and value, the child process, what
\* was thrown inside exec's try block, and the error messages shown for it.
\* What exec writes to the child's stdin (lines 114-116) changes nothing
\* the program keeps and is left out.
Promise(state, value, child, thrown, shown) ==
    [state |-> state, value |-> value, child |-> child, thrown |-> thrown,
     shown |-> shown]

\* the value undefined, and a ShellResult
Undefined == [defined |-> FALSE, code |-> 0, stdout |-> <<>>, stderr |-> <<>>]
ShellResult(r) ==
    [defined |-> TRUE, code |-> r.code, stdout |-> r.stdout, stderr |-> r.stderr]

\* caught, with the promise left pending after the message is shown
caught_pending(thrown) == Promise("pending", Undefined, "none", thrown, 1)

\* lines 103-109 with a failure inside the try block: the catch block shows
\* the error and the async function returns, so its promise resolves with
\* undefined
caught(thrown) == Promise("resolved", Undefined, "none", thrown, 1)

\* lines 111-118 when shelljs.exec returned a process: execCore's promise,
\* and so exec's, is pending until the callback runs
spawned == Promise("pending", Undefined, "running", "nothing", 0)

\* a caller runs exec(cmd, stdin): execOpts() is evaluated first, then
\* execCore starts the child unless shelljs.exec throws
CallExec ==
    /\ Len(execs) < MaxExecs
    /\ \E spawnThrows \in BOOLEAN :
        LET r == execOpts(penv, config, minikube, minishift)
        IN  /\ penv' = r.penv
            /\ last' = Call("exec", penv, execOptsBase(penv), r.env, r.threw, r.calls)
            /\ execs' = Append(execs,
                               IF r.threw THEN caught("execOpts")
                               ELSE IF spawnThrows THEN caught("shelljs.exec")
                               ELSE spawned)
            /\ UNCHANGED <<platform, config, minikube, minishift>>

\* line 113: the child of a pending exec ends and shelljs runs the callback,
\* which resolves the promise with the child's code and output
ChildExit ==
    \E i \in DOMAIN execs, res \in ChildResults :
        /\ execs[i].state = "pending"
        /\ execs' = [execs EXCEPT ![i] =
                        Promise("resolved", ShellResult(res), "exited",
                                execs[i].thrown, execs[i].shown)]
        /\ UNCHANGED <<platform, config, minikube, minishift, penv, last>>

\* minikube is installed, removed, or its machine changes state. `last`
\* records a call together with the helpers it met, so it is dropped when
\* they change.
MinikubeChanges ==
    /\ minikube' \in HelperValues \ {minikube}
    /\ last' = NoCall
    /\ UNCHANGED <<platform, config, minishift, penv, execs>>

\* minishift is installed, removed, or its machine changes state
MinishiftChanges ==
    /\ minishift' \in HelperValues \ {minishift}
    /\ last' = NoCall
    /\ UNCHANGED <<platform, config, minikube, penv, execs>>

\* The environment-building operations, with the helpers changing between
\* calls.
Next ==
    \/ CallAutoDockerEnvConfig
    \/ CallShellEnvironment
    \/ CallExecOpts
    \/ MinikubeChanges
    \/ MinishiftChanges

Spec == Init /\ [][Next]_vars

\* exec and its child processes. exec touches process.env only through its
\* execOpts() call, so the promises are followed in a specification of
\* their own.
NextExec ==
    \/ CallExec
    \/ ChildExit

SpecExec == Init /\ [][NextExec]_vars

-----------------------------------------------------------------------------
(* Properties                                                              *)

Range(f) == {f[i] : i \in DOMAIN f}

Count(f, x) == Cardinality({i \in DOMAIN f : f[i] = x})

\* DOCKER_HOST or DOCKER_CERT_PATH holds a non-empty value in pe
DockerConfigured(pe) ==
    \E n \in {DOCKER_HOST, DOCKER_CERT_PATH} : n \in DOMAIN pe /\ Len(pe[n]) > 0

\* a helper that is installed and whose docker-env exits 0 with no stderr
RunsClean(h) == h.present /\ h.code = 0 /\ Len(h.stderr) = 0

\* a helper that is installed and whose docker-env fails
RunsBadly(h) == h.present /\ (h.code # 0 \/ Len(h.stderr) > 0)

\* the last operation built an environment
BuiltEnv == last.op \in {"shellEnvironment", "execOpts", "exec"}

\* the value auto-detection gives DOCKER_HOST for the output STDOUT_HOST
TCP_DETECTED ==
    <<"t","c","p",":","/","/","1",".","2",".","3",".","4",":","2","3","7","6">>

\* C1: whenever autoDockerEnvConfig starts with DOCKER_HOST and
\* DOCKER_CERT_PATH unset and minikube is installed and its docker-env
\* succeeds, the call does not throw and minikube's output is applied: with
\* the output `export DOCKER_HOST="tcp://1.2.3.4:2376"` DOCKER_HOST ends as
\* tcp://1.2.3.4:2376.
C1_MinikubeOutputApplied ==
    \A i \in DOMAIN last.calls :
        LET c == last.calls[i]
        IN  (~DockerConfigured(c.pre) /\ RunsClean(minikube))
            => /\ ~c.threw
               /\ minikube.stdout = STDOUT_HOST
                    => /\ DOCKER_HOST \in DOMAIN c.post
                       /\ c.post[DOCKER_HOST] = TCP_DETECTED

\* C2: a call of autoDockerEnvConfig that starts with a non-empty
\* DOCKER_HOST or DOCKER_CERT_PATH in process.env returns false, makes no
\* shelljs call (no which, no docker-env) and leaves process.env as it was.
C2_ExplicitConfigurationKept ==
    \A i \in DOMAIN last.calls :
        LET c == last.calls[i]
        IN  DockerConfigured(c.pre)
            => /\ ~c.threw
               /\ c.ret = FALSE
               /\ c.events = <<>>
               /\ c.post = c.pre

\* C2's case: the second and third call of one execOpts() find the
\* DOCKER_HOST that its first call detected
C2_Witness ==
    /\ last.op = "execOpts"
    /\ Len(last.calls) = 3
    /\ ~DockerConfigured(last.calls[1].pre)
    /\ DOCKER_HOST \in DOMAIN last.calls[2].pre
    /\ last.calls[2].pre[DOCKER_HOST] = TCP_DETECTED
    /\ RunsClean(minishift)

\* C4: a call that starts with DOCKER_HOST and DOCKER_CERT_PATH unset and
\* finds neither minikube nor minishift does not throw, returns false, runs
\* no docker-env command and leaves process.env as it was.
C4_MissingHelpersReturnFalse ==
    \A i \in DOMAIN last.calls :
        LET c == last.calls[i]
        IN  (~DockerConfigured(c.pre) /\ ~minikube.present /\ ~minishift.present)
            => /\ ~c.threw
               /\ c.ret = FALSE
               /\ EXEC_MINIKUBE \notin Range(c.events)
               /\ EXEC_MINISHIFT \notin Range(c.events)
               /\ c.post = c.pre

\* C4's case: a direct call with no explicit configuration and no helper
C4_Witness ==
    /\ last.op = "autoDockerEnvConfig"
    /\ ~DockerConfigured(last.pre)
    /\ ~minikube.present
    /\ ~minishift.present
    /\ last.calls[1].events = <<WHICH_MINIKUBE, WHICH_MINISHIFT>>

\* C7: when the helper run whose result the call evaluates (minishift's,
\* the only one that reaches the evaluation on line 172) exits non-zero or
\* writes to stderr, the call logs the error and nothing else, returns
\* false, does not throw and writes nothing to process.env.
C7_HelperFailureReturnsFalse ==
    \A i \in DOMAIN last.calls :
        LET c == last.calls[i]
        IN  (EXEC_MINISHIFT \in Range(c.events) /\ RunsBadly(minishift))
            => /\ ~c.threw
               /\ c.ret = FALSE
               /\ c.post = c.pre
               /\ Len(c.log) = 1
               /\ c.log[1].kind = "error"
               /\ c.log[1].text = minishift.stderr

\* C7's case: minikube failed with a non-zero code, then minishift failed
\* with output on stderr
C7_Witness ==
    /\ last.op = "autoDockerEnvConfig"
    /\ RunsBadly(minikube)
    /\ minikube.code # 0
    /\ RunsBadly(minishift)
    /\ minishift.code = 0
    /\ last.calls[1].events =
           <<WHICH_MINIKUBE, EXEC_MINIKUBE, WHICH_MINISHIFT, EXEC_MINISHIFT>>

\* C8: within one call, minikube docker-env runs at most once and only if
\* minikube is installed; minishift docker-env runs at most once, only if
\* minishift is installed, only after every minikube step, and only when
\* minikube is missing or failed; when minikube succeeded, minishift is
\* neither looked up nor run.
C8_HelpersSequential ==
    \A i \in DOMAIN last.calls :
        LET ev == last.calls[i].events
        IN  /\ Count(ev, EXEC_MINIKUBE) <= 1
            /\ EXEC_MINIKUBE \in Range(ev) => minikube.present
            /\ Count(ev, EXEC_MINISHIFT) <= 1
            /\ EXEC_MINISHIFT \in Range(ev)
                 => /\ minishift.present
                    /\ ~minikube.present \/ RunsBadly(minikube)
            /\ \A j, k \in DOMAIN ev :
                   (/\ ev[j] \in {WHICH_MINIKUBE, EXEC_MINIKUBE}
                    /\ ev[k] \in {WHICH_MINISHIFT, EXEC_MINISHIFT}) => j < k
            /\ RunsClean(minikube)
                 => /\ WHICH_MINISHIFT \notin Range(ev)
                    /\ EXEC_MINISHIFT \notin Range(ev)

\* C8's case: minikube ran and failed, then minishift ran and its output
\* was applied
C8_Witness ==
    /\ last.op = "autoDockerEnvConfig"
    /\ RunsBadly(minikube)
    /\ RunsClean(minishift)
    /\ last.calls[1].events =
           <<WHICH_MINIKUBE, EXEC_MINIKUBE, WHICH_MINISHIFT, EXEC_MINISHIFT>>
    /\ last.calls[1].post # last.calls[1].pre

\* the PATH-equivalent key of the environment the last operation was given
WINPATH == <<"P","a","t","h">>
PathKey ==
    IF platform = WINDOWS /\ WINPATH \in DOMAIN last.base THEN WINPATH ELSE PATH

\* the configured tools in the order kubectl, helm, draft
IsConfigured(tool) == Len(config[tool]) > 0
ConfiguredTools == SelectSeq(TOOLS, IsConfigured)

\* the directory that holds a tool
ExpectedDir(tool) ==
    IF platform = WINDOWS
    THEN <<"C", ":", "\\", ToolDir(tool)>>
    ELSE <<"/", ToolDir(tool)>>

Reverse(f) == [i \in DOMAIN f |-> f[Len(f) + 1 - i]]

\* the entries joined by the platform's separator
RECURSIVE JoinEntries(_)
JoinEntries(entries) ==
    IF Len(entries) = 0 THEN <<>>
    ELSE IF Len(entries) = 1 THEN entries[1]
    ELSE entries[1] \o (IF platform = WINDOWS THEN <<";">> ELSE <<":">>)
         \o JoinEntries(Tail(entries))

\* the search path the operation was given, as a list of at most one entry
OriginalPath ==
    IF PathKey \in DOMAIN last.base /\ Len(last.base[PathKey]) > 0
    THEN <<last.base[PathKey]>>
    ELSE <<>>

ToolDirs == [i \in DOMAIN ConfiguredTools |-> ExpectedDir(ConfiguredTools[i])]

\* the PATH-equivalent key is in the returned environment exactly as it
\* came in
PathUntouched ==
    /\ PathKey \in DOMAIN last.env <=> PathKey \in DOMAIN last.base
    /\ PathKey \in DOMAIN last.base => last.env[PathKey] = last.base[PathKey]

\* C3 as claimed: the returned search path holds the directories of the
\* configured tools, a later tool's before an earlier tool's, and all of
\* them before the original entries; no configured tool, no change.
C3_ToolsPrepended ==
    (BuiltEnv /\ ~last.threw)
    => IF Len(ConfiguredTools) = 0 THEN PathUntouched
       ELSE /\ PathKey \in DOMAIN last.env
            /\ last.env[PathKey] = JoinEntries(Reverse(ToolDirs) \o OriginalPath)

\* C3 as amended: the returned search path holds the original entries
\* first and then the directories of the configured tools in the order
\* kubectl, helm, draft; a tool without a configured path contributes
\* nothing.
C3_ToolsAppended ==
    (BuiltEnv /\ ~last.threw)
    => IF Len(ConfiguredTools) = 0 THEN PathUntouched
       ELSE /\ PathKey \in DOMAIN last.env
            /\ last.env[PathKey] = JoinEntries(OriginalPath \o ToolDirs)

\* C3's case: the three tools are configured and the environment came in
\* with a search path
C3_Witness ==
    /\ BuiltEnv
    /\ ~last.threw
    /\ Len(ConfiguredTools) = 3
    /\ Len(OriginalPath) = 1
    /\ last.env[PathKey] = JoinEntries(OriginalPath \o ToolDirs)

\* C5 as claimed: exec's promise is never rejected; after a failure caught
\* in exec the error is shown once and the promise stays pending for ever;
\* without a failure the promise settles only once the child has ended, with
\* the child's code, stdout and stderr.
C5_CaughtLeavesPending ==
    \A i \in DOMAIN execs :
        LET e == execs[i]
        IN  /\ e.state # "rejected"
            /\ e.thrown # "nothing" => e.shown = 1 /\ e.state = "pending"
            /\ (e.thrown = "nothing" /\ e.state = "resolved")
                 => e.child = "exited" /\ e.value.defined

\* C5 as amended: exec's promise is never rejected; after a failure caught
\* in exec (shelljs.exec throwing, or execOpts() throwing) the error is
\* shown once, no child runs and the promise resolves with undefined;
\* without a failure no error is shown, the promise is pending while the
\* child runs and resolves, once the child has ended, with the child's
\* code, stdout and stderr.
C5_CaughtResolvesUndefined ==
    \A i \in DOMAIN execs :
        LET e == execs[i]
        IN  /\ e.state # "rejected"
            /\ e.thrown # "nothing"
                 => /\ e.shown = 1
                    /\ e.state = "resolved"
                    /\ ~e.value.defined
                    /\ e.child = "none"
            /\ e.thrown = "nothing"
                 => /\ e.shown = 0
                    /\ e.state = "pending" <=> e.child = "running"
                    /\ e.state = "resolved"
                         => /\ e.child = "exited"
                            /\ e.value.defined
                            /\ \E r \in ChildResults :
                                   /\ e.value.code = r.code
                                   /\ e.value.stdout = r.stdout
                                   /\ e.value.stderr = r.stderr

\* C5's case: shelljs.exec threw although execOpts() had returned
C5_Witness ==
    \E i \in DOMAIN execs :
        /\ execs[i].thrown = "shelljs.exec"
        /\ execs[i].state = "resolved"
        /\ ~last.threw

\* the end of the name that starts at index 8 of line
NameEnd(line) ==
    CHOOSE e \in 8..(Len(line) + 1) :
        /\ \A j \in 8..(e - 1) : line[j] \in NameChars
        /\ e = Len(line) + 1 \/ line[e] \notin NameChars

\* a line of the form `export NAME=VALUE` with a non-empty NAME
HasExportForm(line) ==
    /\ Len(line) >= 9
    /\ SubSeq(line, 1, 7) = EXPORT \o <<" ">>
    /\ NameEnd(line) > 8
    /\ NameEnd(line) <= Len(line)
    /\ line[NameEnd(line)] = "="

\* pe after the lines from index i on, each line of the form
\* `export NAME=VALUE` setting NAME to VALUE without its double quotes
RECURSIVE ExportsApplied(_, _, _)
ExportsApplied(lines, i, pe) ==
    IF i > Len(lines) THEN pe
    ELSE IF HasExportForm(lines[i])
         THEN ExportsApplied(lines, i + 1,
                  SetVar(pe, SubSeq(lines[i], 8, NameEnd(lines[i]) - 1),
                         stripQuotes(SubSeq(lines[i], NameEnd(lines[i]) + 1,
                                            Len(lines[i])))))
         ELSE ExportsApplied(lines, i + 1, pe)

\* the helper whose run succeeded: minikube, or minishift after minikube
\* was missing or failed
CleanOutput ==
    IF RunsClean(minikube) THEN minikube.stdout ELSE minishift.stdout

\* C6: after a successful helper run the non-empty lines of its output are
\* applied: every line of the form `export NAME=VALUE` (NAME non-empty)
\* sets NAME to VALUE without double quotes, a later line winning, and no
\* other line writes anything.
C6_ExportLinesApplied ==
    \A i \in DOMAIN last.calls :
        LET c == last.calls[i]
        IN  (/\ ~DockerConfigured(c.pre)
             /\ RunsClean(minikube) \/ RunsClean(minishift))
            => /\ ~c.threw
               /\ c.post = ExportsApplied(filterLines(splitLines(CleanOutput)),
                                          1, c.pre)

\* C9 as claimed: building an environment calls autoDockerEnvConfig at
\* most once, and not at all when no tool path is configured.
C9_DetectionAtMostOnce ==
    BuiltEnv => /\ Len(last.calls) <= 1
                /\ Len(ConfiguredTools) = 0 => Len(last.calls) = 0

\* C9 as amended: building an environment calls autoDockerEnvConfig once
\* for every configured tool, in the loop's order, until a call throws,
\* which ends the operation: at most three calls, none when no tool path is
\* configured, and as many as configured tools when the operation returns.
C9_DetectionPerTool ==
    BuiltEnv
    => /\ Len(last.calls) <= Len(ConfiguredTools)
       /\ ~last.threw => Len(last.calls) = Len(ConfiguredTools)
       /\ last.threw => /\ Len(last.calls) >= 1
                        /\ last.calls[Len(last.calls)].threw
       /\ \A i \in DOMAIN last.calls : i < Len(last.calls) => ~last.calls[i].threw
       /\ \A i \in DOMAIN last.calls :
              i > 1 => last.calls[i].pre = last.calls[i - 1].post

\* C9's case: three tools are configured and each of the three calls ran a
\* helper
C9_Witness ==
    /\ last.op = "shellEnvironment"
    /\ ~last.threw
    /\ Len(last.calls) = 3
    /\ \A i \in 1..3 : EXEC_MINISHIFT \in Range(last.calls[i].events)

\* the names the auto-detection calls of the last operation wrote
NamesSetBy(c) ==
    {c.log[j].name : j \in {k \in DOMAIN c.log : c.log[k].kind = "set"}}
NamesSet == UNION {NamesSetBy(last.calls[i]) : i \in DOMAIN last.calls}

\* f and g agree on key k: both lack it, or both hold the same value
SameAt(f, g, k) ==
    /\ k \in DOMAIN f <=> k \in DOMAIN g
    /\ k \in DOMAIN f => f[k] = g[k]

\* C10: an operation that builds an environment changes process.env only
\* where its autoDockerEnvConfig calls wrote a NAME=VALUE; the environment
\* it returns equals the one it was given (for execOpts: process.env as it
\* was at the start, with HOME overridden on Windows) on every key but the
\* PATH-equivalent key and KUBECONFIG, and KUBECONFIG is the setting when
\* one is configured and as given otherwise. So a variable detected during
\* the call is missing from the environment this call returns.
C10_EnvironmentIsACopy ==
    BuiltEnv
    => /\ \A k \in (DOMAIN penv \cup DOMAIN last.pre) \ NamesSet :
              SameAt(penv, last.pre, k)
       /\ last.op \in {"execOpts", "exec"}
            => \A k \in (DOMAIN last.base \cup DOMAIN last.pre) \ {HOME} :
                   SameAt(last.base, last.pre, k)
       /\ ~last.threw
            => /\ \A k \in (DOMAIN last.env \cup DOMAIN last.base)
                              \ {PathKey, KUBECONFIG} :
                      SameAt(last.env, last.base, k)
               /\ IF Len(config.kubeconfig) > 0
                  THEN /\ KUBECONFIG \in DOMAIN last.env
                       /\ last.env[KUBECONFIG] = config.kubeconfig
                  ELSE SameAt(last.env, last.base, KUBECONFIG)

\* C10's case: execOpts() detected DOCKER_HOST, which is in process.env
\* afterwards and not in the environment returned, and set KUBECONFIG
C10_Witness ==
    /\ last.op = "execOpts"
    /\ ~last.threw
    /\ DOCKER_HOST \in NamesSet
    /\ DOCKER_HOST \in DOMAIN penv
    /\ DOCKER_HOST \notin DOMAIN last.env
    /\ KUBECONFIG \in DOMAIN last.env
    /\ KUBECONFIG \notin DOMAIN penv

=============================================================================
